---- MODULE Spec2Model ----
(***************************************************************************)
(* Model of src/main.rs: find_all_shortest_paths and bfs_shortest_paths.   *)
(* A behaviour is one call of find_all_shortest_paths on a grid and two    *)
(* labels.  Positions are 0-indexed (row, col) pairs as in the source; a   *)
(* path string is a sequence of one-character strings.                     *)
(***************************************************************************)
EXTENDS Integers, Sequences, FiniteSets, TLC

\* Bounds of the grid families the inputs are drawn from.
MaxRows == 3
MaxCols == 3
MaxDupRows == 2
MaxDupCols == 2
\* Capacity given to the queue: a push onto a queue of this length does not happen.
MaxQueue == 32

\* Stand-in for usize::MAX (main.rs:71): larger than every level of the model.
USIZE_MAX == 2147483647

VARIABLES
    grid,               \* argument: the grid, a sequence of rows
    start_number,       \* argument
    end_number,         \* argument
    dir_order,          \* order in which the four direction indices are enumerated
    pc,                 \* position in the call
    start_pos,          \* Option<(usize, usize)>
    end_pos,            \* Option<(usize, usize)>
    queue,              \* VecDeque of (position, path, level)
    distance,           \* HashMap position -> level
    shortest_paths,     \* Vec<String>
    shortest_distance,  \* usize
    cur,                \* the entry taken by pop_front: current, path, level
    dir_idx,            \* index of the for loop over the directions
    result              \* the returned Vec<String>

vars == <<grid, start_number, end_number, dir_order, pc, start_pos, end_pos,
          queue, distance, shortest_paths, shortest_distance, cur, dir_idx, result>>

----------------------------------------------------------------------------
\* Input grids

\* The rows x cols grid labelled 1 .. rows*cols in row-major order.
UniqueGrid(rows, cols) ==
    [r \in 1..rows |-> [c \in 1..cols |-> (r - 1) * cols + c]]

\* UniqueGrid with the label of cell number q replaced by the label of cell p.
DupGrid(rows, cols, p, q) ==
    [r \in 1..rows |-> [c \in 1..cols |->
        IF (r - 1) * cols + c = q THEN p ELSE (r - 1) * cols + c]]

\* The grids of main and of the tests: 3x3, 4x4 and 2x2.
TestGrid3 == <<<<1, 2, 3>>, <<4, 5, 6>>, <<7, 8, 9>>>>
TestGrid4 == <<<<1, 2, 3, 4>>, <<5, 6, 7, 8>>, <<9, 10, 11, 12>>, <<13, 14, 15, 16>>>>
TestGrid2 == <<<<1, 2>>, <<3, 4>>>>

ValidGrids ==
    {<<>>, TestGrid3, TestGrid2}
        \cup {UniqueGrid(r, c) : r \in 1..MaxRows, c \in 1..MaxCols}

DupGrids ==
    UNION {{DupGrid(rc[1], rc[2], pq[1], pq[2]) :
                pq \in {x \in (1..(rc[1] * rc[2])) \X (1..(rc[1] * rc[2])) : x[1] # x[2]}} :
           rc \in (1..MaxDupRows) \X (1..MaxDupCols)}

Rows(g) == Len(g)
Cols(g) == IF Len(g) > 0 THEN Len(g[1]) ELSE 0

\* Labels offered for a grid: those of its cells and two that no cell carries.
LabelsFor(g) == 1..(Rows(g) * Cols(g) + 2)

----------------------------------------------------------------------------
\* Option<(usize, usize)>
None == [some |-> FALSE, pos |-> <<0, 0>>]
Some(p) == [some |-> TRUE, pos |-> p]

\* One cell of the scan: the if / else if of the inner loop body.
\* Variant of ScanCell that keeps the first match, as a scan that stops at it would.
ScanCellFirst(acc, value, pos, s, e) ==
    IF value = s
    THEN IF acc.start_pos.some THEN acc ELSE [acc EXCEPT !.start_pos = Some(pos)]
    ELSE IF value = e
         THEN IF acc.end_pos.some THEN acc ELSE [acc EXCEPT !.end_pos = Some(pos)]
         ELSE acc

ScanCell(acc, value, pos, s, e) ==
    IF value = s THEN [acc EXCEPT !.start_pos = Some(pos)]
    ELSE IF value = e THEN [acc EXCEPT !.end_pos = Some(pos)]
    ELSE acc

\* The two nested loops over the grid, row-major; k is the number of the cell.
RECURSIVE ScanCells(_, _, _, _, _)
ScanCells(g, s, e, k, acc) ==
    IF k >= Rows(g) * Cols(g) THEN acc
    ELSE LET row == k \div Cols(g)
             col == k % Cols(g)
         IN  ScanCells(g, s, e, k + 1,
                       ScanCell(acc, g[row + 1][col + 1], <<row, col>>, s, e))

\* Variant of FindPositions whose two positions start as Some((0, 0)) instead of None.
FindPositionsFromOrigin(g, s, e) ==
    ScanCells(g, s, e, 0, [start_pos |-> Some(<<0, 0>>), end_pos |-> Some(<<0, 0>>)])

\* Lines 23-34: both positions start as None and the scan runs over every cell.
FindPositions(g, s, e) ==
    ScanCells(g, s, e, 0, [start_pos |-> None, end_pos |-> None])

\* Variant of EitherMissing with && in place of ||.
BothMissing(sp, ep) == ~sp.some /\ ~ep.some

\* The test of line 37.
EitherMissing(sp, ep) == ~sp.some \/ ~ep.some

----------------------------------------------------------------------------
\* bfs_shortest_paths

directions == <<<<0, 1>>, <<1, 0>>, <<0, -1>>, <<-1, 0>>>>

\* Variant of direction_chars with the characters of down and up exchanged.
direction_chars_flipped == <<">", "^", "<", "v">>

direction_chars == <<">", "v", "<", "^">>

IdentityOrder == <<0, 1, 2, 3>>

Orders ==
    {o \in [1..4 -> 0..3] : \A i, j \in 1..4 : i # j => o[i] # o[j]}

\* Variant of InBounds with <= in place of < on the upper limits.
InBoundsInclusive(new_row, new_col, rows, cols) ==
    new_row >= 0 /\ new_row <= rows /\ new_col >= 0 /\ new_col <= cols

InBounds(new_row, new_col, rows, cols) ==
    new_row >= 0 /\ new_row < rows /\ new_col >= 0 /\ new_col < cols

\* Variant of Revisit: a plain visited set.
RevisitUnseenOnly(dist, new_pos, new_level) ==
    new_pos \notin DOMAIN dist

\* Variant of Revisit with <= in place of ==.
RevisitNotShorter(dist, new_pos, new_level) ==
    new_pos \notin DOMAIN dist \/ dist[new_pos] <= new_level

\* The condition under which a neighbour is visited.
Revisit(dist, new_pos, new_level) ==
    new_pos \notin DOMAIN dist \/ dist[new_pos] = new_level

\* HashMap::insert
Insert(dist, k, v) ==
    [p \in DOMAIN dist \cup {k} |-> IF p = k THEN v ELSE dist[p]]

EmptyMap == [p \in {} |-> 0]

\* Variant of ExtendPath that forgets the push.
ExtendPathNoPush(path, d) == path

\* path.clone() followed by push(direction_chars[dir_idx])
ExtendPath(path, d) == Append(path, direction_chars[d + 1])

\* Variant of PushBack: push_front.
PushFront(q, entry) == <<entry>> \o q

\* VecDeque::push_back
PushBack(q, entry) == Append(q, entry)

\* Variant of PopRest: the front is read with front() and stays in the queue.
FrontKept(q) == q

\* The queue left by VecDeque::pop_front.
PopRest(q) == Tail(q)

\* Variant of InitSearch without the insertion of the start cell into the distance map.
InitSearchNoDistance(start) ==
    [queue             |-> <<[pos |-> start, path |-> <<>>, level |-> 0]>>,
     distance          |-> EmptyMap,
     shortest_paths    |-> <<>>,
     shortest_distance |-> USIZE_MAX]

\* The search state as a record.
InitSearch(start) ==
    [queue             |-> <<[pos |-> start, path |-> <<>>, level |-> 0]>>,
     distance          |-> Insert(EmptyMap, start, 0),
     shortest_paths    |-> <<>>,
     shortest_distance |-> USIZE_MAX]

\* Variant of Pruned that lets one more level through.
PrunedOneLate(st, level) ==
    st.shortest_paths # <<>> /\ level > st.shortest_distance + 1

\* Variant of Pruned with >= in place of >.
PrunedAtBest(st, level) ==
    st.shortest_paths # <<>> /\ level >= st.shortest_distance

\* The skip test at the head of the loop body.
Pruned(st, level) ==
    st.shortest_paths # <<>> /\ level > st.shortest_distance

\* Variant of RecordPath with <= in place of <: an equally short path resets the list.
RecordPathAlwaysReset(st, path, level) ==
    IF level <= st.shortest_distance
    THEN [st EXCEPT !.shortest_paths = <<path>>, !.shortest_distance = level]
    ELSE st

\* Variant of RecordPath that puts an equally short path at the front of the list.
RecordPathPrepend(st, path, level) ==
    IF level < st.shortest_distance
    THEN [st EXCEPT !.shortest_paths = <<path>>, !.shortest_distance = level]
    ELSE IF level = st.shortest_distance
         THEN [st EXCEPT !.shortest_paths = <<path>> \o @]
         ELSE st

\* The body of `if current == end`.
RecordPath(st, path, level) ==
    IF level < st.shortest_distance
    THEN [st EXCEPT !.shortest_paths = <<path>>, !.shortest_distance = level]
    ELSE IF level = st.shortest_distance
         THEN [st EXCEPT !.shortest_paths = Append(@, path)]
         ELSE st

\* One iteration of the for loop over the directions, for direction index d.
VisitNeighbour(st, rows, cols, e, d) ==
    LET new_row   == e.pos[1] + directions[d + 1][1]
        new_col   == e.pos[2] + directions[d + 1][2]
        new_pos   == <<new_row, new_col>>
        new_level == e.level + 1
    IN  IF InBounds(new_row, new_col, rows, cols) /\ Revisit(st.distance, new_pos, new_level)
        THEN [st EXCEPT !.distance = Insert(@, new_pos, new_level),
                        !.queue = PushBack(@, [pos   |-> new_pos,
                                               path  |-> ExtendPath(e.path, d),
                                               level |-> new_level])]
        ELSE st

\* The whole for loop, from position i of the order on.
RECURSIVE ExploreFrom(_, _, _, _, _, _)
ExploreFrom(st, rows, cols, e, order, i) ==
    IF i > 3 THEN st
    ELSE ExploreFrom(VisitNeighbour(st, rows, cols, e, order[i + 1]),
                     rows, cols, e, order, i + 1)

\* The while loop, run to its end; yields the returned vector.
RECURSIVE BfsLoop(_, _, _, _, _)
BfsLoop(st, rows, cols, end, order) ==
    IF st.queue = <<>> THEN st.shortest_paths
    ELSE LET e   == Head(st.queue)
             st1 == [st EXCEPT !.queue = PopRest(@)]
         IN  IF Pruned(st1, e.level) THEN BfsLoop(st1, rows, cols, end, order)
             ELSE IF e.pos = end
                  THEN BfsLoop(RecordPath(st1, e.path, e.level), rows, cols, end, order)
                  ELSE BfsLoop(ExploreFrom(st1, rows, cols, e, order, 0),
                               rows, cols, end, order)

bfs_shortest_paths(g, start, end, order) ==
    BfsLoop(InitSearch(start), Rows(g), Cols(g), end, order)

find_all_shortest_paths(g, s, e, order) ==
    LET found == FindPositions(g, s, e)
    IN  IF EitherMissing(found.start_pos, found.end_pos) THEN <<>>
        ELSE bfs_shortest_paths(g, found.start_pos.pos, found.end_pos.pos, order)

----------------------------------------------------------------------------
\* The call as a state machine

St == [queue |-> queue, distance |-> distance,
       shortest_paths |-> shortest_paths, shortest_distance |-> shortest_distance]

SetSt(st) ==
    /\ queue' = st.queue
    /\ distance' = st.distance
    /\ shortest_paths' = st.shortest_paths
    /\ shortest_distance' = st.shortest_distance

NoEntry == [pos |-> <<0, 0>>, path |-> <<>>, level |-> 0]

InitLocals ==
    /\ pc = "scan"
    /\ start_pos = None
    /\ end_pos = None
    /\ queue = <<>>
    /\ distance = EmptyMap
    /\ shortest_paths = <<>>
    /\ shortest_distance = USIZE_MAX
    /\ cur = NoEntry
    /\ dir_idx = 0
    /\ result = <<>>

\* A call on any grid of the families, with the direction order of the source.
Init ==
    /\ grid \in ValidGrids \cup {TestGrid4} \cup DupGrids
    /\ start_number \in LabelsFor(grid)
    /\ end_number \in LabelsFor(grid)
    /\ dir_order = IdentityOrder
    /\ InitLocals

\* A call on a grid of unique labels, with the directions enumerated in any order.
InitAnyOrder ==
    /\ grid \in ValidGrids
    /\ start_number \in LabelsFor(grid)
    /\ end_number \in LabelsFor(grid)
    /\ dir_order \in Orders
    /\ InitLocals

Inputs == <<grid, start_number, end_number, dir_order>>

\* Lines 23-34: the scan for the two labels.
Scan ==
    /\ pc = "scan"
    /\ LET found == FindPositions(grid, start_number, end_number)
       IN  /\ start_pos' = found.start_pos
           /\ end_pos' = found.end_pos
    /\ pc' = "found"
    /\ UNCHANGED <<Inputs, queue, distance, shortest_paths, shortest_distance,
                   cur, dir_idx, result>>

\* Lines 37-39: a label was not found.
ReturnNotFound ==
    /\ pc = "found"
    /\ EitherMissing(start_pos, end_pos)
    /\ result' = <<>>
    /\ pc' = "done"
    /\ UNCHANGED <<Inputs, start_pos, end_pos, queue, distance, shortest_paths,
                   shortest_distance, cur, dir_idx>>

\* Line 42 and lines 52-71: the call of bfs_shortest_paths up to the loop.
CallBfs ==
    /\ pc = "found"
    /\ ~EitherMissing(start_pos, end_pos)
    /\ SetSt(InitSearch(start_pos.pos))
    /\ pc' = "loop"
    /\ UNCHANGED <<Inputs, start_pos, end_pos, cur, dir_idx, result>>

\* Lines 73-91: pop_front, the skip test and the test for the end cell.
PopFront ==
    /\ pc = "loop"
    /\ queue # <<>>
    /\ LET e   == Head(queue)
           st1 == [St EXCEPT !.queue = PopRest(@)]
       IN  /\ cur' = e
           /\ IF Pruned(st1, e.level)
              THEN SetSt(st1) /\ pc' = "loop"
              ELSE IF e.pos = end_pos.pos
                   THEN SetSt(RecordPath(st1, e.path, e.level)) /\ pc' = "loop"
                   ELSE SetSt(st1) /\ pc' = "explore"
    /\ dir_idx' = 0
    /\ UNCHANGED <<Inputs, start_pos, end_pos, result>>

\* Lines 94-117: one iteration of the loop over the directions.
ExploreDirection ==
    /\ pc = "explore"
    /\ Len(queue) < MaxQueue
    /\ SetSt(VisitNeighbour(St, Rows(grid), Cols(grid), cur, dir_order[dir_idx + 1]))
    /\ IF dir_idx < 3
       THEN dir_idx' = dir_idx + 1 /\ pc' = "explore"
       ELSE dir_idx' = 0 /\ pc' = "loop"
    /\ UNCHANGED <<Inputs, start_pos, end_pos, cur, result>>

\* Lines 73 and 120: the queue is empty, the paths are returned.
ReturnPaths ==
    /\ pc = "loop"
    /\ queue = <<>>
    /\ result' = shortest_paths
    /\ pc' = "done"
    /\ UNCHANGED <<Inputs, start_pos, end_pos, queue, distance, shortest_paths,
                   shortest_distance, cur, dir_idx>>

Next ==
    \/ Scan
    \/ ReturnNotFound
    \/ CallBfs
    \/ PopFront
    \/ ExploreDirection
    \/ ReturnPaths

Spec == Init /\ [][Next]_vars

SpecAnyOrder == InitAnyOrder /\ [][Next]_vars

\* The call runs to its end without suspension: a step that can be taken is taken.
SpecFair == Init /\ [][Next]_vars /\ WF_vars(Next)

----------------------------------------------------------------------------
\* Vocabulary of the properties, independent of the definitions above

MoveChars == {">", "v", "<", "^"}

MoveDelta(m) ==
    IF m = ">" THEN <<0, 1>>
    ELSE IF m = "v" THEN <<1, 0>>
    ELSE IF m = "<" THEN <<0, -1>>
    ELSE <<-1, 0>>

Inside(g, p) == p[1] >= 0 /\ p[1] < Rows(g) /\ p[2] >= 0 /\ p[2] < Cols(g)

\* The positions visited by applying the first k moves of path from p.
RECURSIVE After(_, _, _)
After(p, path, k) ==
    IF k = 0 THEN p
    ELSE LET q == After(p, path, k - 1)
             d == MoveDelta(path[k])
         IN  <<q[1] + d[1], q[2] + d[2]>>

\* path is a walk of moves from p to q that never leaves the grid.
WalksFromTo(g, p, q, path) ==
    /\ \A k \in 1..Len(path) : path[k] \in MoveChars
    /\ \A k \in 0..Len(path) : Inside(g, After(p, path, k))
    /\ After(p, path, Len(path)) = q

Cells(g) == {<<r, c>> : r \in 0..(Rows(g) - 1), c \in 0..(Cols(g) - 1)}
CellsWith(g, label) == {p \in Cells(g) : g[p[1] + 1][p[2] + 1] = label}
Present(g, label) == CellsWith(g, label) # {}
UniqueLabels(g) == \A label \in LabelsFor(g) : Cardinality(CellsWith(g, label)) <= 1
PositionOf(g, label) == CHOOSE p \in CellsWith(g, label) : TRUE

RowMajor(g, p) == p[1] * Cols(g) + p[2]
FirstOccurrence(g, label) ==
    CHOOSE p \in CellsWith(g, label) :
        \A q \in CellsWith(g, label) : RowMajor(g, p) <= RowMajor(g, q)
LastOccurrence(g, label) ==
    CHOOSE p \in CellsWith(g, label) :
        \A q \in CellsWith(g, label) : RowMajor(g, p) >= RowMajor(g, q)

Abs(x) == IF x < 0 THEN -x ELSE x
Manhattan(p, q) == Abs(p[1] - q[1]) + Abs(p[2] - q[2])

RECURSIVE Binomial(_, _)
Binomial(n, k) ==
    IF k = 0 \/ k = n THEN 1 ELSE Binomial(n - 1, k - 1) + Binomial(n - 1, k)

Range(seq) == {seq[i] : i \in 1..Len(seq)}
NoDuplicates(seq) == \A i, j \in 1..Len(seq) : i # j => seq[i] # seq[j]
QueuePaths == [i \in 1..Len(queue) |-> queue[i].path]

\* Every move sequence of minimum length that leads from p to q inside the grid.
AllShortestWalks(g, p, q) ==
    {path \in [1..Manhattan(p, q) -> MoveChars] : WalksFromTo(g, p, q, path)}

BothPresent == Present(grid, start_number) /\ Present(grid, end_number)
SearchNotRun == pc \in {"scan", "found", "done"} /\ distance = EmptyMap /\ queue = <<>>

----------------------------------------------------------------------------
\* C1: on a grid of unique labels with both labels present, every returned
\* path has the Manhattan distance as its length, consists of the four move
\* characters, and walked from the start position stays inside the grid and
\* ends on the end position.
C1_PathsAreShortestWalks ==
    (pc = "done" /\ UniqueLabels(grid) /\ BothPresent) =>
        \A i \in 1..Len(result) :
            /\ Len(result[i]) = Manhattan(PositionOf(grid, start_number),
                                          PositionOf(grid, end_number))
            /\ WalksFromTo(grid, PositionOf(grid, start_number),
                           PositionOf(grid, end_number), result[i])

W1_SeveralLongPaths ==
    /\ pc = "done" /\ UniqueLabels(grid) /\ BothPresent
    /\ Len(result) >= 3
    /\ Len(result[1]) >= 3

X3_SameLabelGivesEmptyPath ==
    (pc = "done" /\ UniqueLabels(grid) /\ start_number = end_number
        /\ Present(grid, start_number)) =>
        result = <<<<>>>>

C5_AbsentLabelGivesEmpty ==
    ~BothPresent => (SearchNotRun /\ (pc = "done" => result = <<>>))

W5_OneLabelAbsent ==
    /\ pc = "done"
    /\ Present(grid, start_number) /\ ~Present(grid, end_number)
    /\ Rows(grid) > 1

\* C6: on a grid of unique labels the result accumulator and the queue never
\* hold two entries with the same path string, and neither does the result.
C6_NoDuplicatePaths ==
    UniqueLabels(grid) =>
        /\ NoDuplicates(shortest_paths \o QueuePaths)
        /\ NoDuplicates(result)

W6_PathsInBoth ==
    /\ UniqueLabels(grid)
    /\ Len(shortest_paths) >= 2
    /\ Len(queue) >= 2

\* C7 as stated: with distinct labels both present and one of them in more
\* than one cell, the labels resolve to their FIRST row-major occurrence and the
\* returned paths lead from the first occurrence of start_label to the first
\* occurrence of end_label.
X7_FirstOccurrenceUsed ==
    (pc = "done" /\ BothPresent /\ start_number # end_number /\ ~UniqueLabels(grid)) =>
        /\ start_pos = Some(FirstOccurrence(grid, start_number))
        /\ end_pos = Some(FirstOccurrence(grid, end_number))
        /\ \A i \in 1..Len(result) :
               WalksFromTo(grid, FirstOccurrence(grid, start_number),
                           FirstOccurrence(grid, end_number), result[i])

\* C7 amended: the scan runs over the whole grid in row-major order and
\* resolves a label to the LAST cell that matches it; the returned paths lead
\* from the last occurrence of start_label to the last occurrence of end_label.
C7_LastOccurrenceUsed ==
    (pc = "done" /\ BothPresent /\ start_number # end_number /\ ~UniqueLabels(grid)) =>
        /\ start_pos = Some(LastOccurrence(grid, start_number))
        /\ end_pos = Some(LastOccurrence(grid, end_number))
        /\ result # <<>>
        /\ \A i \in 1..Len(result) :
               WalksFromTo(grid, LastOccurrence(grid, start_number),
                           LastOccurrence(grid, end_number), result[i])

W7_DuplicateLabelResolved ==
    /\ pc = "done" /\ BothPresent /\ start_number # end_number
    /\ \/ Cardinality(CellsWith(grid, start_number)) > 1
       \/ Cardinality(CellsWith(grid, end_number)) > 1
    /\ result # <<>>
    /\ Len(result[1]) >= 1

\* C8: on the grid of zero rows the search is never started and the call
\* returns the empty collection, whatever the labels, equal or not.
C8_EmptyGridGivesEmpty ==
    grid = <<>> =>
        /\ pc \in {"scan", "found", "done"}
        /\ ~start_pos.some /\ ~end_pos.some
        /\ shortest_paths = <<>>
        /\ result = <<>>

W8_EmptyGridSameLabel ==
    pc = "done" /\ grid = <<>> /\ start_number = end_number

\* C9: with the four directions enumerated in any order, the set of returned
\* paths is the set returned with the order right, down, left, up.
C9_OrderDoesNotChangeSet ==
    pc = "done" =>
        Range(result) =
            Range(find_all_shortest_paths(grid, start_number, end_number, IdentityOrder))

W9_OtherOrderOtherSequence ==
    /\ pc = "done"
    /\ dir_order # IdentityOrder
    /\ Len(result) >= 2
    /\ result # find_all_shortest_paths(grid, start_number, end_number, IdentityOrder)

\* C10: a step of the search enqueues a neighbour only at level+1 and only if
\* the cell has no recorded distance or its recorded distance equals level+1,
\* and a recorded distance never changes.
C10_RevisitRule ==
    [][ /\ (pc = "explore" /\ Len(queue') > Len(queue)) =>
              LET n == queue'[Len(queue')]
              IN  /\ n.level = cur.level + 1
                  /\ n.pos \notin DOMAIN distance \/ distance[n.pos] = n.level
        /\ \A p \in DOMAIN distance :
              p \in DOMAIN distance' /\ distance'[p] = distance[p]
      ]_vars

W10_CellEnqueuedTwice ==
    \E i, j \in 1..Len(queue) :
        /\ i < j
        /\ queue[i].pos = queue[j].pos
        /\ queue[i].pos \in DOMAIN distance
        /\ distance[queue[i].pos] = queue[j].level

----------------------------------------------------------------------------
\* Vocabulary of the properties of the search loop

\* The search has been entered.
Searching == pc \in {"loop", "explore"}

\* The step is a pop_front.
IsPop == pc = "loop" /\ queue # <<>>

\* seq is an initial part of longer.
IsPrefix(seq, longer) ==
    /\ Len(seq) <= Len(longer)
    /\ \A i \in 1..Len(seq) : seq[i] = longer[i]

MoveRank(m) ==
    IF m = ">" THEN 0 ELSE IF m = "v" THEN 1 ELSE IF m = "<" THEN 2 ELSE 3

\* a comes strictly before b in the lexicographic order of the move ranks.
LexLess(a, b) ==
    \/ /\ Len(a) < Len(b)
       /\ \A k \in 1..Len(a) : a[k] = b[k]
    \/ \E k \in 1..Len(a) :
          /\ k <= Len(b)
          /\ \A i \in 1..(k - 1) : a[i] = b[i]
          /\ MoveRank(a[k]) < MoveRank(b[k])

\* C11: once a path to the end is recorded, a dequeued entry whose level
\* exceeds the best distance is dropped: nothing is enqueued and the distance
\* map and the result set stay as they are; and no queue entry ever has a level
\* above the best distance plus one.
C11_PruningDropsDeeperEntries ==
    /\ [](shortest_paths # <<>> =>
            \A i \in 1..Len(queue) : queue[i].level <= shortest_distance + 1)
    /\ [][(IsPop /\ shortest_paths # <<>> /\ Head(queue).level > shortest_distance) =>
              /\ pc' = "loop"
              /\ queue' = Tail(queue)
              /\ distance' = distance
              /\ shortest_paths' = shortest_paths
              /\ shortest_distance' = shortest_distance
       ]_vars

W11_EntryDropped ==
    /\ pc = "loop"
    /\ shortest_paths # <<>>
    /\ cur.level = shortest_distance + 1
    /\ queue # <<>>

\* C12: the first dequeued end entry sets the best distance and makes the
\* result set that single path; every later dequeued end entry has the best
\* distance as its level and is appended.  The best distance is assigned once
\* and never lowered, and a non-empty result set only grows.
C12_BestDistanceSetOnce ==
    [][ /\ (IsPop /\ Head(queue).pos = end_pos.pos /\ shortest_paths = <<>>) =>
              /\ shortest_paths' = <<Head(queue).path>>
              /\ shortest_distance' = Head(queue).level
        /\ (IsPop /\ Head(queue).pos = end_pos.pos /\ shortest_paths # <<>>) =>
              /\ Head(queue).level = shortest_distance
              /\ shortest_paths' = Append(shortest_paths, Head(queue).path)
        /\ shortest_distance' # shortest_distance =>
              /\ shortest_paths = <<>>
              /\ shortest_distance = USIZE_MAX
              /\ shortest_distance' < shortest_distance
        /\ shortest_paths # <<>> =>
              /\ IsPrefix(shortest_paths, shortest_paths')
              /\ shortest_distance' = shortest_distance
      ]_vars

W12_SecondPathAppended ==
    /\ Len(shortest_paths) >= 2
    /\ cur.pos = end_pos.pos
    /\ cur.path = shortest_paths[Len(shortest_paths)]

\* C13: every call returns: the loop empties the queue, whose length stays
\* below its capacity all the way.
C13_SearchTerminates ==
    /\ <>(pc = "done")
    /\ [](Len(queue) < MaxQueue)

W13_ReturnedAfterSearch ==
    /\ pc = "done"
    /\ distance # EmptyMap
    /\ Len(result) >= 2

\* C14: every queue entry lies inside the grid, has as many moves in its path
\* as its level says, and its path walked from the start position ends on its
\* position.
C14_QueueEntriesConsistent ==
    \A i \in 1..Len(queue) :
        /\ Inside(grid, queue[i].pos)
        /\ Len(queue[i].path) = queue[i].level
        /\ After(start_pos.pos, queue[i].path, Len(queue[i].path)) = queue[i].pos

W14_DeepEntryQueued ==
    \E i \in 1..Len(queue) : queue[i].level >= 3 /\ queue[i].pos # start_pos.pos

\* C15: every cell of the distance map is recorded at its Manhattan distance
\* from the start position, the start cell at 0, and every queue entry's level
\* is the recorded distance of its position.
C15_DistanceMapCorrect ==
    /\ \A p \in DOMAIN distance : distance[p] = Manhattan(start_pos.pos, p)
    /\ Searching => (start_pos.pos \in DOMAIN distance /\ distance[start_pos.pos] = 0)
    /\ \A i \in 1..Len(queue) :
          /\ queue[i].pos \in DOMAIN distance
          /\ distance[queue[i].pos] = queue[i].level

W15_FarCellRecorded ==
    /\ \E p \in DOMAIN distance : distance[p] >= 3
    /\ Len(queue) >= 2

\* C16: the levels of the queue entries do not decrease from front to back
\* and differ by at most 1, so at most two levels are in the queue; entries
\* are dequeued in non-decreasing level order.
C16_LevelSynchronised ==
    /\ [](\A i, j \in 1..Len(queue) :
            i < j => /\ queue[i].level <= queue[j].level
                     /\ queue[j].level <= queue[i].level + 1)
    /\ [][IsPop => (cur'.level >= cur.level /\ cur' = Head(queue))]_vars

W16_TwoLevelsQueued ==
    /\ Len(queue) >= 3
    /\ queue[1].level >= 1
    /\ queue[Len(queue)].level = queue[1].level + 1

\* C17: the returned sequence is the one the function of the inputs yields,
\* and it is strictly increasing in the lexicographic order that ranks right
\* before down before left before up; on the 2x2 grid from 1 to 4 it is
\* ">v" followed by "v>".
C17_ResultInLexOrder ==
    pc = "done" =>
        /\ result = find_all_shortest_paths(grid, start_number, end_number, dir_order)
        /\ \A i, j \in 1..Len(result) : i < j => LexLess(result[i], result[j])
        /\ (grid = TestGrid2 /\ start_number = 1 /\ end_number = 4) =>
               result = <<<<">", "v">>, <<"v", ">">>>>

W17_SeveralPathsReturned ==
    /\ pc = "done"
    /\ Len(result) >= 3
    /\ "<" \in Range(result[1]) \/ "^" \in Range(result[1])

====
